---- MODULE Spec2Model ----
(***************************************************************************)
(* Model of vespene/workers/daemon.py: the worker daemon's polling loop.    *)
(*                                                                          *)
(* Several Daemon processes run against one relational store.  Inside one   *)
(* process the code is sequential; processes interleave at the granularity  *)
(* of one store statement (a query, an UPDATE, a SELECT ... FOR UPDATE      *)
(* NOWAIT, the end of an atomic block).  dm[d].pc is the statement daemon d *)
(* executes next.  Time is counted in whole minutes.                        *)
(*                                                                          *)
(* A row lock taken by select_for_update is held until the enclosing        *)
(* transaction.atomic() block is left; it is therefore not a variable of    *)
(* its own but read off the holder's position (BuildLockHolder,             *)
(* OrgLockHolder).  A plain UPDATE that matches a row locked by another     *)
(* transaction waits for that lock, as the store's row locking does.        *)
(***************************************************************************)
EXTENDS Integers, Sequences, FiniteSets, TLC

\* ---------------------------------------------------------------- bounds
MaxBuilds == 2          \* builds the Scheduler materializes (Spec, SpecRace)
MaxMinutes == 2         \* where the clock stops (Spec, SpecRace)
MaxDupBuilds == 3       \* builds the Scheduler materializes (SpecDup)
MaxDupMinutes == 1      \* where the clock stops (SpecDup)
MaxHanded == 3          \* hand-overs to the Execution Engine counted per daemon

\* ------------------------------------------------------- program constants
FLAG_ABORTED_AFTER_ABORTING_MINUTES == 1
FallbackSleepSeconds == 60

QUEUED == "QUEUED"
ABORTING == "ABORTING"
ABORTED == "ABORTED"
ORPHANED == "ORPHANED"
\* states owned by the Execution Engine, opaque to the daemon
RUNNING == "RUNNING"
DONE == "DONE"

Statuses == {QUEUED, ABORTING, ABORTED, ORPHANED, RUNNING, DONE}

Daemons == {"d1", "d2"}
PoolNames == {"P1", "P2"}
\* Project.worker_pool: A and B build in pool P1, C in pool P2
ProjectPool == [A |-> "P1", B |-> "P1", C |-> "P2"]
Projects == DOMAIN ProjectPool
OrgOrder == <<"o1", "o2">>
Orgs == {OrgOrder[i] : i \in 1..Len(OrgOrder)}

None == 0               \* Python's None for a build reference / a count
NoPool == [exists |-> FALSE]

VARIABLES
    now,        \* datetime.now(tz=utc), in minutes
    builds,     \* the Build table: builds[id] = [status, project, queued_time]
    projects,   \* the Project table: the names of the projects that exist
    pool,       \* the WorkerPool row named by the daemons, or NoPool
    orgs,       \* the Organization table: orgs[o] = [import_enabled, worker_pool, imported]
    warned,     \* the builds LOG.warn has reported as "in aborting status too long"
    dm          \* one record per Daemon object and its position in run()

vars == <<now, builds, projects, pool, orgs, warned, dm>>

BuildIds == 1..Len(builds)

\* ------------------------------------------------------------- helpers

SetMin(S) == CHOOSE x \in S : \A y \in S : x <= y
SetMax(S) == CHOOSE x \in S : \A y \in S : x >= y

\* daemon d's fields
Upd(d, r) == dm' = [dm EXCEPT ![d] = r]

\* the daemon that holds the row lock on build b (select_for_update, line 120,
\* until the atomic block of line 118 is left), or {} when nobody does
BuildLockHolders(b) == {e \in Daemons : dm[e].pc = "locked" /\ dm[e].first = b}

\* the daemon inside the atomic block of line 171 with organization o locked
OrgLockHolders(o) == {e \in Daemons : dm[e].pc = "importing" /\ Head(dm[e].todo) = o}

\* ------------------------------------------------------- run(): lines 82-93

\* line 87: "except Exception" catches every failure class below; SystemExit,
\* raised by sys.exit, derives from BaseException and passes through
Failures == {"Exception", "DatabaseError", "AttributeError"}
SystemExits == {"exit_count", "exit_idle", "exit_missing"}

CaughtDatabaseErrorOnly(e) == e = "DatabaseError"
Caught(e) == e \in Failures

\* lines 89-93: the finally clause sleeps the pool's interval, or the fallback
SleepSecondsNoFallback(r) ==
    IF r.pool_obj # NoPool THEN r.pool_obj.sleep_seconds ELSE FallbackSleepSeconds + 1
SleepSeconds(r) ==
    IF r.pool_obj # NoPool THEN r.pool_obj.sleep_seconds ELSE FallbackSleepSeconds

\* The tick of daemon record r ends with outcome e ("none": body returned).
\* A caught failure abandons the tick; anything else that is raised ends the
\* process after the finally clause.  Leaving find_build drops its locals.
EndTick(r, e) ==
    [r EXCEPT !.pc = IF e = "none" \/ Caught(e) THEN "reload" ELSE "exited",
              !.exc = IF Caught(e) THEN "caught" ELSE e,
              !.slept = SleepSeconds(r),
              !.threshold = 0, !.count = 0, !.first = None,
              !.build = None, !.todo = << >>]

\* ------------------------------------------------------ reload(): lines 67-73

\* organizations of line 169, in the order the loop of line 170 visits them
RECURSIVE EnabledOrgs(_, _)
EnabledOrgs(i, p) ==
    IF i > Len(OrgOrder) THEN << >>
    ELSE LET o == OrgOrder[i]
             rest == EnabledOrgs(i + 1, p)
         IN  IF orgs[o].import_enabled /\ orgs[o].worker_pool = p
             THEN <<o>> \o rest ELSE rest

\* line 170: the loop goes on with the next organization, or is left and
\* body() goes on to cleanup_orphaned_builds (line 193)
LoopOverToSchedule(r, todo) ==
    IF todo = << >>
    THEN [r EXCEPT !.pc = "schedule", !.todo = << >>]
    ELSE [r EXCEPT !.pc = "import", !.todo = todo]
LoopOver(r, todo) ==
    IF todo = << >>
    THEN [r EXCEPT !.pc = "reap", !.todo = << >>]
    ELSE [r EXCEPT !.pc = "import", !.todo = todo]

\* lines 84-86: reload the pool; with a pool run body(), which starts with
\* import_organizations (line 192); without one fall through to the sleep
Reload(d) ==
    LET r == dm[d] IN
    /\ r.pc = "reload"
    /\ LET r1 == [r EXCEPT !.pool_obj = pool, !.exc = "none", !.slept = 0] IN
       IF pool # NoPool
       THEN Upd(d, LoopOver(r1, EnabledOrgs(1, r.pool)))
       ELSE Upd(d, EndTick(r1, "none"))
    /\ UNCHANGED <<now, builds, projects, pool, orgs, warned>>

\* --------------------------------------- import_organizations(): lines 167-178

\* lines 171-173: select_for_update(nowait=True) on the next organization
\* raises DatabaseError when another transaction holds the row, which line 177
\* catches: the organization is skipped
ImportLock(d) ==
    LET r == dm[d] IN
    /\ r.pc = "import"
    /\ IF OrgLockHolders(Head(r.todo)) # {}
       THEN Upd(d, LoopOver(r, Tail(r.todo)))
       ELSE Upd(d, [r EXCEPT !.pc = "importing"])
    /\ UNCHANGED <<now, builds, projects, pool, orgs, warned>>

\* what ImportManager(org).do_import() may do: return, or raise
ImportOutcomes == {"ok", "DatabaseError", "Exception"}

\* lines 174-178: do_import() and org.save() under the lock.  A DatabaseError
\* is caught by line 177 and the loop goes on; any other failure leaves the
\* atomic block, the loop and body()
DoImport(d) ==
    LET r == dm[d]
        o == Head(r.todo)
    IN
    /\ r.pc = "importing"
    /\ \E out \in ImportOutcomes :
         CASE out = "ok" ->
                /\ orgs' = [orgs EXCEPT ![o].imported = TRUE]
                /\ Upd(d, LoopOver(r, Tail(r.todo)))
           [] out = "DatabaseError" ->
                /\ UNCHANGED orgs
                /\ Upd(d, LoopOver(r, Tail(r.todo)))
           [] OTHER ->
                /\ UNCHANGED orgs
                /\ Upd(d, EndTick(r, out))
    /\ UNCHANGED <<now, builds, projects, pool, warned>>

\* ------------------------------------ cleanup_orphaned_builds(): lines 140-163

\* a store statement may fail (a transient store error)
StoreOutcomes == {"ok", "DatabaseError"}

\* QuerySet.update(status=s) on the rows in S
UpdateStatusAll(bs, S, s) ==
    [b \in DOMAIN bs |-> IF S # {} THEN [bs[b] EXCEPT !.status = s] ELSE bs[b]]
UpdateStatus(bs, S, s) ==
    [b \in DOMAIN bs |-> IF b \in S THEN [bs[b] EXCEPT !.status = s] ELSE bs[b]]

\* an UPDATE by daemon d waits while a row it matches is locked by another
\* transaction
Waits(d, S) == \E b \in S : BuildLockHolders(b) \ {d} # {}

\* lines 143-148: QUEUED builds of the pool's projects queued before the threshold
UnclaimedTooLong(bs, p, t, auto_abort_minutes) ==
    {b \in DOMAIN bs : /\ bs[b].status = QUEUED
                       /\ ProjectPool[bs[b].project] = p
                       /\ bs[b].queued_time < t - auto_abort_minutes}

\* lines 155-159: ABORTING builds of any pool queued before the grace period
AbortingTooLongGt(bs, t) ==
    {b \in DOMAIN bs : /\ bs[b].status = ABORTING
                       /\ bs[b].queued_time > t - FLAG_ABORTED_AFTER_ABORTING_MINUTES}
AbortingTooLong(bs, t) ==
    {b \in DOMAIN bs : /\ bs[b].status = ABORTING
                       /\ bs[b].queued_time < t - FLAG_ABORTED_AFTER_ABORTING_MINUTES}

\* line 152
OrphanSweep(bs, p, t, auto_abort_minutes) ==
    UpdateStatus(bs, UnclaimedTooLong(bs, p, t, auto_abort_minutes), ORPHANED)

\* line 163
AbortSweep(bs, t) == UpdateStatus(bs, AbortingTooLong(bs, t), ABORTED)

\* both sweeps in turn
Reap(bs, p, t, auto_abort_minutes) == AbortSweep(OrphanSweep(bs, p, t, auto_abort_minutes), t)

\* line 193: both sweeps, each one UPDATE, the second reported by the
\* warnings of lines 160-161; body() goes on to schedule_builds
CleanupOrphanedBuilds(d) ==
    LET r == dm[d]
        aam == r.pool_obj.auto_abort_minutes
    IN
    /\ r.pc = "reap"
    /\ ~Waits(d, UnclaimedTooLong(builds, r.pool, now, aam) \cup AbortingTooLong(builds, now))
    /\ \E out \in StoreOutcomes :
         IF out = "ok"
         THEN /\ builds' = Reap(builds, r.pool, now, aam)
              /\ warned' = warned \cup AbortingTooLong(builds, now)
              /\ Upd(d, [r EXCEPT !.pc = "schedule"])
         ELSE /\ UNCHANGED <<builds, warned>>
              /\ Upd(d, EndTick(r, out))
    /\ UNCHANGED <<now, projects, pool, orgs>>

\* --------------------------------------------- schedule_builds(): lines 182-183

\* Scheduler().go() materializes at most one new QUEUED build per call here:
\* the next identifier, any project, queued at the current time
NewBuild(pr) == [status |-> QUEUED, project |-> pr, queued_time |-> now]

ScheduleBuilds(d, cap) ==
    LET r == dm[d] IN
    /\ r.pc = "schedule"
    /\ \/ /\ UNCHANGED builds
          /\ \E out \in StoreOutcomes :
               Upd(d, IF out = "ok" THEN [r EXCEPT !.pc = "find"] ELSE EndTick(r, out))
       \/ /\ Len(builds) < cap
          /\ \E pr \in projects : builds' = Append(builds, NewBuild(pr))
          /\ Upd(d, [r EXCEPT !.pc = "find"])
    /\ UNCHANGED <<now, projects, pool, orgs, warned>>

\* ------------------------------------------------- find_build(): lines 97-125

\* lines 108-112: the queryset "builds"; Build.worker_pool is the pool of the
\* build's project
EligibleAnyAge(bs, p, threshold) ==
    {b \in DOMAIN bs : /\ bs[b].status = QUEUED
                       /\ ProjectPool[bs[b].project] = p}
Eligible(bs, p, threshold) ==
    {b \in DOMAIN bs : /\ bs[b].status = QUEUED
                       /\ ProjectPool[bs[b].project] = p
                       /\ bs[b].queued_time > threshold}

\* line 116: builds.order_by('id').first()
FirstByIdDesc(S) == IF S = {} THEN None ELSE SetMax(S)
FirstById(S) == IF S = {} THEN None ELSE SetMin(S)

\* lines 211-215: no build this tick; the idle check
IdleExpired(r, t) ==
    /\ r.max_wait_minutes > 0
    /\ ((t - r.time_counter) * 60) * 60 > r.max_wait_minutes

NoBuild(r) == EndTick(r, IF IdleExpired(r, now) THEN "exit_idle" ELSE "none")

\* lines 198-199: find_build returned build b; the idle timer is reset
\* (the timer of a daemon without idle timeout is never read, and not kept)
Claimed(r, b) ==
    [r EXCEPT !.pc = "claimed", !.build = b, !.threshold = 0, !.first = None,
              !.time_counter = IF r.max_wait_minutes > 0 THEN now ELSE @]

\* line 196 into find_build.  Targeted (lines 99-104): the build by its key, or
\* sys.exit(0).  Pool-wide (lines 107-115): the threshold and the count
FindBuild(d) ==
    LET r == dm[d]
        threshold == now - r.pool_obj.auto_abort_minutes
        count == Cardinality(Eligible(builds, r.pool, threshold))
    IN
    /\ r.pc = "find"
    /\ \E out \in StoreOutcomes :
         IF out # "ok" THEN Upd(d, EndTick(r, out))
         ELSE IF r.build_id # None
              THEN IF r.build_id \in BuildIds
                   THEN Upd(d, Claimed(r, r.build_id))
                   ELSE Upd(d, EndTick(r, "exit_missing"))
              ELSE IF count = 0
                   THEN Upd(d, NoBuild(r))
                   ELSE Upd(d, [r EXCEPT !.pc = "first", !.threshold = threshold,
                                         !.count = count])
    /\ UNCHANGED <<now, builds, projects, pool, orgs, warned>>

\* line 116: a second evaluation of the queryset, with the threshold of line 107
FindBuildFirst(d) ==
    LET r == dm[d] IN
    /\ r.pc = "first"
    /\ Upd(d, [r EXCEPT !.pc = "lock", !.threshold = 0,
                        !.first = FirstById(Eligible(builds, r.pool, r.threshold))])
    /\ UNCHANGED <<now, builds, projects, pool, orgs, warned>>

\* lines 118-122: first.pk fails on None (the queryset emptied since the count);
\* select_for_update(nowait=True) raises DatabaseError when the row is locked,
\* and find_build returns None
FindBuildLock(d) ==
    LET r == dm[d] IN
    /\ r.pc = "lock"
    /\ IF r.first = None THEN Upd(d, EndTick(r, "AttributeError"))
       ELSE IF BuildLockHolders(r.first) # {} THEN Upd(d, NoBuild(r))
       ELSE Upd(d, [r EXCEPT !.pc = "locked"])
    /\ UNCHANGED <<now, builds, projects, pool, orgs, warned>>

\* lines 130-135: the other QUEUED builds of first's project
ExtraBuildsNoExclude(bs, first) ==
    {b \in DOMAIN bs : /\ bs[b].status = QUEUED
                       /\ bs[b].project = bs[first].project}
ExtraBuilds(bs, first) ==
    {b \in DOMAIN bs : /\ bs[b].status = QUEUED
                       /\ bs[b].project = bs[first].project
                       /\ b # first}

\* line 136
CleanupExtraBuilds(bs, first) == UpdateStatus(bs, ExtraBuilds(bs, first), ABORTED)

\* line 123
WantsCleanup(r) == r.count > 1 /\ r.pool_obj.build_latest

\* lines 123-125 with the lock held: cancel the duplicates if asked to, leave
\* the atomic block (the lock is released) and return first
FindBuildCommit(d) ==
    LET r == dm[d] IN
    /\ r.pc = "locked"
    /\ IF WantsCleanup(r)
       THEN /\ ~Waits(d, ExtraBuilds(builds, r.first))
            /\ builds' = CleanupExtraBuilds(builds, r.first)
            /\ Upd(d, Claimed(r, r.first))
       ELSE /\ UNCHANGED builds
            /\ Upd(d, Claimed(r, r.first))
    /\ UNCHANGED <<now, projects, pool, orgs, warned>>

\* ------------------------------------------------------ body(): lines 198-207

\* line 202: BuildLord(build).go() takes the build over
StartBuild(d) ==
    LET r == dm[d] IN
    /\ r.pc = "claimed"
    /\ r.handed < MaxHanded
    /\ builds' = [builds EXCEPT ![r.build].status = RUNNING]
    /\ Upd(d, [r EXCEPT !.pc = "building", !.count = 0,
                        !.handed = IF r.build_counter > 0 THEN @ + 1 ELSE @])
    /\ UNCHANGED <<now, projects, pool, orgs, warned>>

\* line 202 returns or raises; lines 204-207 count the build and exit at zero
FinishBuild(d) ==
    LET r == dm[d]
        counted == [r EXCEPT !.build_counter = @ - 1]
    IN
    /\ r.pc = "building"
    /\ \/ /\ builds' = [builds EXCEPT ![r.build].status =
                           IF @ = ABORTING THEN ABORTED ELSE DONE]
          /\ Upd(d, EndTick(counted,
                            IF counted.build_counter = 0 THEN "exit_count" ELSE "none"))
       \/ /\ UNCHANGED builds
          /\ Upd(d, EndTick(r, "Exception"))
    /\ UNCHANGED <<now, projects, pool, orgs, warned>>

\* ------------------------------------------------------------ environment

\* the clock
Tick(cap) ==
    /\ now < cap
    /\ now' = now + 1
    /\ UNCHANGED <<builds, projects, pool, orgs, warned, dm>>

\* a user asks for a running build to be stopped
StopRequested ==
    /\ \E b \in BuildIds :
         /\ builds[b].status = RUNNING
         /\ builds' = [builds EXCEPT ![b].status = ABORTING]
    /\ UNCHANGED <<now, projects, pool, orgs, warned, dm>>

\* ------------------------------------------------ __init__(): lines 43-61

PoolRow(auto_abort_minutes, build_latest) ==
    [exists |-> TRUE, name |-> "P1", sleep_seconds |-> 10,
     auto_abort_minutes |-> auto_abort_minutes, build_latest |-> build_latest]

\* Daemon(pool_name, max_wait_minutes, max_builds, build_id) with pool row p
Daemon(pool_name, max_wait_minutes, max_builds, build_id, p) ==
    [pool |-> pool_name,
     max_builds |-> max_builds,
     max_wait_minutes |-> IF build_id >= 0 THEN -1 ELSE max_wait_minutes,
     build_counter |-> IF build_id >= 0 THEN 1 ELSE max_builds,
     build_id |-> IF build_id >= 0 THEN build_id ELSE None,
     pool_obj |-> p,
     time_counter |-> 0,
     pc |-> "reload", exc |-> "none", slept |-> 0,
     threshold |-> 0, count |-> 0, first |-> None, build |-> None,
     todo |-> << >>, handed |-> 0]

\* a process that was never started
Absent == [Daemon("P1", -1, -1, -1, NoPool) EXCEPT !.pc = "absent"]

OrgRows(enabled) ==
    [o \in Orgs |-> [import_enabled |-> o \in enabled, worker_pool |-> "P1",
                     imported |-> FALSE]]

DaemonStep(d, cap) ==
    \/ Reload(d)
    \/ ImportLock(d)
    \/ DoImport(d)
    \/ CleanupOrphanedBuilds(d)
    \/ ScheduleBuilds(d, cap)
    \/ FindBuild(d)
    \/ FindBuildFirst(d)
    \/ FindBuildLock(d)
    \/ FindBuildCommit(d)
    \/ StartBuild(d)
    \/ FinishBuild(d)

\* the store before any daemon has run: no build yet, the pool row with
\* auto_abort_minutes = 1 and either duplicate-build policy
World(projs, enabled, policies) ==
    /\ now = 0
    /\ builds = << >>
    /\ warned = {}
    /\ projects = projs
    /\ \E bl \in policies : pool = PoolRow(1, bl)
    /\ orgs = OrgRows(enabled)

\* the ways __init__ distinguishes: <<max_wait_minutes, max_builds, build_id>>;
\* the last build id names a build that never exists
Constructions ==
    {<<-1, -1, -1>>, <<1, 1, -1>>, <<-1, -1, 1>>, <<-1, -1, MaxBuilds + 1>>}

\* One daemon serves pool P1; project A builds in P1 and project C in P2;
\* organization o1 imports.
Init ==
    /\ World({"A", "C"}, {"o1"}, BOOLEAN)
    /\ \E c \in Constructions :
         dm = [d \in Daemons |-> IF d = "d1" THEN Daemon("P1", c[1], c[2], c[3], pool)
                                 ELSE Absent]

Next ==
    \/ \E d \in Daemons : DaemonStep(d, MaxBuilds)
    \/ Tick(MaxMinutes)
    \/ StopRequested

Spec == Init /\ [][Next]_vars

\* Two pool-wide daemons without limits serve pool P1, whose only project is A.
InitRace ==
    /\ World({"A"}, {"o1"}, BOOLEAN)
    /\ dm = [d \in Daemons |-> Daemon("P1", -1, -1, -1, pool)]

SpecRace == InitRace /\ [][Next]_vars

\* One pool-wide daemon serves pool P1 with the duplicate-build policy on;
\* projects A and B both build in P1.
InitDup ==
    /\ World({"A", "B"}, {"o1"}, {TRUE})
    /\ dm = [d \in Daemons |-> IF d = "d1" THEN Daemon("P1", -1, -1, -1, pool) ELSE Absent]

NextDup ==
    \/ \E d \in Daemons : DaemonStep(d, MaxDupBuilds)
    \/ Tick(MaxDupMinutes)
    \/ StopRequested

SpecDup == InitDup /\ [][NextDup]_vars

\* an administrator creates the worker pool the daemons are named after
CreatePool ==
    /\ pool = NoPool
    /\ \E bl \in BOOLEAN : pool' = PoolRow(1, bl)
    /\ UNCHANGED <<now, builds, projects, orgs, warned, dm>>

\* One daemon, of any construction, is started before its pool exists; the
\* store may already hold a build of project A.
InitNoPool ==
    /\ now = 0
    /\ builds \in {<< >>, <<[status |-> QUEUED, project |-> "A", queued_time |-> 0]>>}
    /\ warned = {}
    /\ projects = {"A", "C"}
    /\ pool = NoPool
    /\ orgs = OrgRows({"o1"})
    /\ \E c \in Constructions :
         dm = [d \in Daemons |-> IF d = "d1" THEN Daemon("P1", c[1], c[2], c[3], NoPool)
                                 ELSE Absent]

NextNoPool ==
    \/ \E d \in Daemons : DaemonStep(d, MaxBuilds)
    \/ Tick(MaxMinutes)
    \/ StopRequested
    \/ CreatePool

SpecNoPool == InitNoPool /\ [][NextNoPool]_vars

\* the reaper step of daemon d that completes both sweeps
ReapDone(d) == CleanupOrphanedBuilds(d) /\ dm'[d].pc = "schedule"

\* the Scheduler call of daemon d that returns normally
ScheduleDone(d) == ScheduleBuilds(d, MaxBuilds) /\ dm'[d].pc = "find"

\* the queue scan of daemon d whose store statements succeed
FindDone(d) == FindBuild(d) /\ dm'[d].exc # "caught"

\* The daemon (one process, pool-wide, no limits) keeps running ticks and the
\* clock keeps advancing.  Any step of a tick may fail on any tick, except
\* that a store statement of the reaper, the Scheduler or the queue scan that
\* is reached again and again does not fail forever.  The import of an
\* organization depends on an external repository and may fail every time.
InitTicks ==
    /\ World({"A", "C"}, {"o1"}, BOOLEAN)
    /\ dm = [d \in Daemons |-> IF d = "d1" THEN Daemon("P1", -1, -1, -1, pool) ELSE Absent]

SpecTicks ==
    /\ InitTicks /\ [][Next]_vars
    /\ WF_vars(DaemonStep("d1", MaxBuilds))
    /\ WF_vars(Tick(MaxMinutes))
    /\ SF_vars(ReapDone("d1"))
    /\ SF_vars(ScheduleDone("d1"))
    /\ SF_vars(FindDone("d1"))

\* the import of one organization by daemon d that does not abandon the tick
ImportDone(d) == DoImport(d) /\ dm'[d].pc # "reload"

\* As SpecTicks, and no import fails forever either: every failure is transient.
SpecLive == SpecTicks /\ SF_vars(ImportDone("d1"))

\* ================================================================ claims

\* daemon d has build b in hand: find_build returned it and BuildLord has not
\* come back
HoldsBuild(d, b) == dm[d].pc \in {"claimed", "building"} /\ dm[d].build = b

\* daemon d takes a step
Steps(d) == dm'[d] # dm[d]

\* find_build of daemon d returns a build in this step
Returns(d) == dm[d].pc # "claimed" /\ dm'[d].pc = "claimed"

\* C1: two daemons never both obtain the same build from find_build: in every
\* reachable state a build is in the hands of at most one daemon.
C1_ClaimedByAtMostOne ==
    \A b \in BuildIds : Cardinality({d \in Daemons : HoldsBuild(d, b)}) <= 1

\* build b is QUEUED, belongs to pool p and was queued after threshold t
IsEligible(b, p, t) ==
    /\ b \in BuildIds
    /\ builds[b].status = QUEUED
    /\ ProjectPool[builds[b].project] = p
    /\ builds[b].queued_time > t

\* C2: in pool-wide mode the threshold is now minus auto_abort_minutes; with no
\* eligible build find_build returns None (no build comes back and nothing is
\* raised); the candidate it selects is eligible and no eligible build has a
\* smaller identifier; and the build it returns is that candidate.
C2_SmallestEligible ==
    [][\A d \in Daemons :
        LET r == dm[d]
            q == dm'[d]
        IN
        /\ (r.pc = "find" /\ r.build_id = None /\ q.pc = "first")
              => /\ q.threshold = now - r.pool_obj.auto_abort_minutes
                 /\ \E b \in BuildIds : IsEligible(b, r.pool, q.threshold)
        /\ (r.pc = "find" /\ r.build_id = None /\ Steps(d) /\ q.exc # "caught"
              /\ ~\E b \in BuildIds :
                     IsEligible(b, r.pool, now - r.pool_obj.auto_abort_minutes))
              => q.build = None /\ q.pc \in {"reload", "exited"}
        /\ (r.pc = "first" /\ Steps(d) /\ q.first # None)
              => /\ IsEligible(q.first, r.pool, r.threshold)
                 /\ \A c \in BuildIds : IsEligible(c, r.pool, r.threshold) => q.first <= c
        /\ (r.pc = "first" /\ Steps(d) /\ q.first = None)
              => ~\E c \in BuildIds : IsEligible(c, r.pool, r.threshold)
        /\ (r.pc = "lock" /\ q.pc = "locked") => q.first = r.first
        /\ (r.pc = "locked" /\ Returns(d)) => q.build = r.first
    ]_vars

\* C2 witness: a pool-wide find_build has returned build 1 while build 2 of the
\* same pool is QUEUED and was queued no earlier
C2_Witness ==
    \E d \in Daemons :
        /\ dm[d].build_id = None /\ dm[d].pc = "claimed" /\ dm[d].build = 1
        /\ Len(builds) >= 2
        /\ builds[2].status = QUEUED
        /\ ProjectPool[builds[2].project] = dm[d].pool
        /\ ProjectPool[builds[1].project] = dm[d].pool

\* C3: the unclaimed-timeout sweep sets every QUEUED build of the pool that is
\* older than auto_abort_minutes to ORPHANED; an ORPHANED build never becomes
\* QUEUED again, so it is orphaned at most once; and find_build never returns a
\* build that is ORPHANED.
C3_OrphanedOnceNeverReturned ==
    [][/\ \A d \in Daemons :
            (dm[d].pc = "reap" /\ dm'[d].pc = "schedule")
               => \A b \in BuildIds :
                     (/\ builds[b].status = QUEUED
                      /\ ProjectPool[builds[b].project] = dm[d].pool
                      /\ builds[b].queued_time < now - dm[d].pool_obj.auto_abort_minutes)
                        => builds'[b].status = ORPHANED
       /\ \A b \in BuildIds : builds[b].status = ORPHANED => builds'[b].status # QUEUED
       /\ \A d \in Daemons : Returns(d) => builds'[dm'[d].build].status # ORPHANED
    ]_vars

\* C4: a non-targeted daemon constructed with max_builds = N > 0 never hands
\* more than N builds to the Execution Engine, and when it exits through the
\* build-count path it has handed over exactly N.
C4_ExactlyMaxBuilds ==
    \A d \in Daemons :
        (dm[d].build_id = None /\ dm[d].max_builds > 0)
           => /\ dm[d].handed <= dm[d].max_builds
              /\ dm[d].exc = "exit_count" => dm[d].handed = dm[d].max_builds

\* find_build of daemon d comes back without a build in this step (lines 115, 122)
ReturnsNone(d) ==
    /\ dm[d].pc \in {"find", "lock"} /\ dm[d].build_id = None
    /\ dm'[d].pc \in {"reload", "exited"} /\ dm'[d].exc # "caught"

\* C5: a non-targeted daemon with idle-timeout M > 0 minutes exits on a tick
\* without a build if and only if more than M minutes have passed since the
\* idle timer was reset.
C5_IdleExitAfterMMinutes ==
    [][\A d \in Daemons :
         (ReturnsNone(d) /\ dm[d].max_wait_minutes > 0)
            => (dm'[d].exc = "exit_idle"
                   <=> now - dm[d].time_counter > dm[d].max_wait_minutes)
    ]_vars

\* C6: a daemon constructed with the id of a build that does not exist changes
\* no Build or Organization record and creates no build in any of its steps.
C6_MissingTargetNoMutation ==
    [][\A d \in Daemons :
         (dm[d].build_id # None /\ dm[d].build_id \notin BuildIds /\ Steps(d))
            => builds' = builds /\ orgs' = orgs
    ]_vars

\* the QUEUED builds of project pr, and those of them find_build may claim now
QueuedOf(pr) == {b \in BuildIds : builds[b].status = QUEUED /\ builds[b].project = pr}
EligibleOf(pr, d) ==
    {b \in QueuedOf(pr) : IsEligible(b, dm[d].pool, now - dm[d].pool_obj.auto_abort_minutes)}

\* C7 as stated: with the duplicate-build policy on and two or more eligible
\* QUEUED builds of one project, after a successful pool-wide claim exactly one
\* build of that project is QUEUED, it is the lowest-id one and the one
\* returned, and every other build of it that was QUEUED is ABORTED.
C7_OneQueuedPerProject ==
    [][\A d \in Daemons : \A pr \in projects :
         (/\ dm[d].pc = "locked" /\ Returns(d)
          /\ dm[d].pool_obj.build_latest
          /\ Cardinality(EligibleOf(pr, d)) >= 2)
            => /\ {b \in BuildIds : builds'[b].status = QUEUED /\ builds'[b].project = pr}
                     = {dm'[d].build}
               /\ dm'[d].build = SetMin(QueuedOf(pr))
               /\ \A b \in QueuedOf(pr) \ {dm'[d].build} : builds'[b].status = ABORTED
    ]_vars

\* C7 amended: a successful pool-wide claim that counted more than one eligible
\* build under the duplicate-build policy sets every other QUEUED build of the
\* claimed build's project to ABORTED, so that none of them is QUEUED, and
\* changes nothing else: the claimed build and the builds of other projects
\* keep their status.  Without the policy, or with a count of one, it changes
\* no build.
C7_DuplicatesOfClaimedProject ==
    [][\A d \in Daemons :
         (dm[d].pc = "locked" /\ Returns(d))
            => LET f == dm'[d].build IN
               /\ f = dm[d].first
               /\ IF dm[d].count > 1 /\ dm[d].pool_obj.build_latest
                  THEN \A b \in BuildIds :
                         IF b # f /\ builds[b].project = builds[f].project
                                  /\ builds[b].status = QUEUED
                         THEN builds'[b] = [builds[b] EXCEPT !.status = ABORTED]
                         ELSE builds'[b] = builds[b]
                  ELSE builds' = builds
    ]_vars

\* C7 witness: the claim that counted several builds has returned build f, a
\* later build of f's project is ABORTED and a build of another project is
\* still QUEUED
C7_Witness ==
    \E d \in Daemons : \E b, c \in BuildIds :
        /\ dm[d].pc = "claimed" /\ dm[d].count > 1 /\ dm[d].pool_obj.build_latest
        /\ builds[dm[d].build].status = QUEUED
        /\ b > dm[d].build
        /\ builds[b].project = builds[dm[d].build].project
        /\ builds[b].status = ABORTED
        /\ builds[c].project # builds[dm[d].build].project
        /\ builds[c].status = QUEUED

\* C8: a reaper run sets every ABORTING build queued before the one-minute
\* grace period to ABORTED, and a second run right after it (same clock, same
\* pool) changes no build.
C8_StuckAbortAndIdempotent ==
    [][\A d \in Daemons :
         (dm[d].pc = "reap" /\ dm'[d].pc = "schedule")
            => /\ \A b \in BuildIds :
                    (/\ builds[b].status = ABORTING
                     /\ builds[b].queued_time < now - FLAG_ABORTED_AFTER_ABORTING_MINUTES)
                       => builds'[b].status = ABORTED
               /\ Reap(builds', dm[d].pool, now, dm[d].pool_obj.auto_abort_minutes) = builds'
    ]_vars

\* C8 witness: the reaper has just run and a build it reported as stuck in
\* ABORTING is ABORTED
C8_Witness ==
    \E d \in Daemons : \E b \in warned :
        /\ dm[d].pc = "schedule"
        /\ builds[b].status = ABORTED

\* C9: a daemon process has ended only through sys.exit on one of the explicit
\* paths (build count exhausted, idle timeout with one configured, targeted
\* build missing); after a failure caught by run the tick is abandoned and
\* the daemon has slept and stands at the start of its next tick.
C9_OnlyExplicitExits ==
    \A d \in Daemons :
        /\ dm[d].pc = "exited"
              => /\ dm[d].exc \in SystemExits
                 /\ dm[d].exc = "exit_count" => dm[d].build_counter = 0
                 /\ dm[d].exc = "exit_idle" => dm[d].max_wait_minutes > 0
                 /\ dm[d].exc = "exit_missing" => dm[d].build_id # None
        /\ dm[d].exc \notin SystemExits => dm[d].pc # "exited"
        /\ dm[d].exc = "caught"
              => /\ dm[d].pc = "reload"
                 /\ dm[d].slept = dm[d].pool_obj.sleep_seconds
                 /\ dm[d].build = None /\ dm[d].first = None

\* C9 witness: a failure of the Execution Engine was caught: the daemon stands
\* at its next tick while the build it had handed over is still RUNNING
C9_Witness ==
    \E d \in Daemons : \E b \in BuildIds :
        /\ dm[d].exc = "caught" /\ dm[d].pc = "reload"
        /\ builds[b].status = RUNNING

\* daemon d waits for a row lock another daemon holds
Blocked(d) ==
    \/ /\ dm[d].pc = "reap"
       /\ Waits(d, UnclaimedTooLong(builds, dm[d].pool, now, dm[d].pool_obj.auto_abort_minutes)
                     \cup AbortingTooLong(builds, now))
    \/ /\ dm[d].pc = "locked" /\ WantsCleanup(dm[d])
       /\ Waits(d, ExtraBuilds(builds, dm[d].first))

\* C10: no daemon ever waits for a row lock held by another daemon.
C10_NoDaemonWaits == \A d \in Daemons : ~Blocked(d)

\* C11: a daemon constructed with a specific build id hands a build to the
\* Execution Engine at most once over its whole run, the build it holds is the
\* targeted one, and it never enters the pool-wide queue scan.
C11_TargetedAtMostOnce ==
    \A d \in Daemons :
        dm[d].build_id # None
           => /\ dm[d].handed <= 1
              /\ dm[d].build \in {None, dm[d].build_id}
              /\ dm[d].pc \notin {"first", "lock", "locked"}

\* C12: whatever way the Import Manager call for one organization ends, the
\* import loop goes on with the remaining import-enabled organizations of the
\* pool and, after the last of them, the tick goes on to its next step.
C12_ImportFailureIsolated ==
    [][\A d \in Daemons :
         (dm[d].pc = "importing" /\ Steps(d))
            => /\ dm'[d].todo = Tail(dm[d].todo)
               /\ dm'[d].pc = IF Tail(dm[d].todo) = << >> THEN "reap" ELSE "import"
    ]_vars

C14_EligibleXorStale ==
    \A p \in PoolNames :
        Eligible(builds, p, now - pool.auto_abort_minutes)
           \cap UnclaimedTooLong(builds, p, now, pool.auto_abort_minutes) = {}

\* C14 witness: at one instant the pool holds a build the sweep would orphan
\* and another build the claim engine would select
C14_Witness ==
    \E p \in PoolNames :
        /\ Eligible(builds, p, now - pool.auto_abort_minutes) # {}
        /\ UnclaimedTooLong(builds, p, now, pool.auto_abort_minutes) # {}

\* the status and the queued time of build b, once the build exists
StatusOf(b) == IF b \in BuildIds THEN builds[b].status ELSE "none"
QueuedTimeOf(b) == IF b \in BuildIds THEN builds[b].queued_time ELSE MaxMinutes

\* C15: every build that is ABORTING (and old enough for the clock to pass its
\* grace period) is eventually ABORTED, given that the daemon keeps running
\* ticks, whatever other steps of its ticks fail.
C15_AbortingReachesAborted ==
    \A b \in 1..MaxBuilds :
        (/\ StatusOf(b) = ABORTING
         /\ QueuedTimeOf(b) < MaxMinutes - FLAG_ABORTED_AFTER_ABORTING_MINUTES)
           ~> (StatusOf(b) = ABORTED)

\* C16: while no worker pool matches the daemon's pool name the daemon, in any
\* construction mode, neither exits nor fails: each of its steps is a tick
\* that runs no body, changes no record and sleeps the fallback interval; the
\* first tick after a matching pool has appeared loads it and runs the body.
C16_IdlesWithoutPool ==
    [][\A d \in Daemons :
         /\ (pool = NoPool /\ dm[d].pc # "absent") => dm[d].pc = "reload"
         /\ (Steps(d) /\ pool = NoPool)
               => /\ dm'[d].pc = "reload"
                  /\ dm'[d].exc = "none"
                  /\ dm'[d].pool_obj = NoPool
                  /\ dm'[d].slept = FallbackSleepSeconds
                  /\ builds' = builds /\ orgs' = orgs /\ warned' = warned
         /\ (Steps(d) /\ pool # NoPool /\ dm[d].pc = "reload")
               => /\ dm'[d].pool_obj = pool
                  /\ dm'[d].pc \in {"import", "reap"}
    ]_vars

\* C16 witness: a targeted daemon has run a tick without a pool and slept the
\* fallback interval, with a build in the store that it left alone
C16_Witness ==
    \E d \in Daemons :
        /\ pool = NoPool
        /\ dm[d].build_id # None
        /\ dm[d].pc = "reload" /\ dm[d].slept = FallbackSleepSeconds
        /\ builds # << >>

\* the status changes the state machine allows to this core
CoreTransitions == {<<QUEUED, ORPHANED>>, <<QUEUED, ABORTED>>, <<ABORTING, ABORTED>>}

\* C17: every status change made by a claim, duplicate-cancel or reaper step
\* is QUEUED -> ORPHANED, QUEUED -> ABORTED or ABORTING -> ABORTED; such a
\* step changes no build that is ORPHANED or ABORTED and moves none to QUEUED
\* or ABORTING, and it changes nothing of a build but its status.
C17_MonotonicStatus ==
    [][\A d \in Daemons :
         (Steps(d) /\ dm[d].pc \in {"reap", "find", "first", "lock", "locked"})
            => \A b \in BuildIds :
                  \/ builds'[b] = builds[b]
                  \/ /\ <<builds[b].status, builds'[b].status>> \in CoreTransitions
                     /\ builds'[b] = [builds[b] EXCEPT !.status = builds'[b].status]
    ]_vars

\* C17 witness: the reaper has made both of its transitions: one build is
\* ORPHANED and a build it found stuck in ABORTING is ABORTED
C17_Witness ==
    \E b \in BuildIds : \E c \in warned :
        /\ builds[b].status = ORPHANED
        /\ builds[c].status = ABORTED

\* daemon d hands build b to the Execution Engine in this step (line 202)
HandsOver(d, b) == dm[d].pc = "claimed" /\ dm'[d].pc = "building" /\ dm[d].build = b

\* C18: each build is handed to the Execution Engine by at most one daemon:
\* find_build returns no build that another daemon has claimed and not yet
\* handed over, and no daemon hands over a build that another daemon's
\* Execution Engine is running or has run.
C18_HandedByAtMostOne ==
    [][\A d \in Daemons : \A b \in BuildIds :
         /\ (Returns(d) /\ dm'[d].build = b)
               => \A e \in Daemons \ {d} : ~(dm[e].pc = "claimed" /\ dm[e].build = b)
         /\ HandsOver(d, b)
               => /\ \A e \in Daemons \ {d} : ~(dm[e].pc = "building" /\ dm[e].build = b)
                  /\ builds[b].status \notin {RUNNING, DONE}
    ]_vars

\* C19: while a daemon has a claimed build in hand that the Execution Engine
\* has not yet given a status of its own, no step of any daemon sets that
\* build to ORPHANED or ABORTED.
C19_ClaimedNotReaped ==
    [][\A d \in Daemons : \A b \in BuildIds :
         (dm[d].pc = "claimed" /\ dm[d].build = b /\ builds[b].status = QUEUED)
            => builds'[b].status \notin {ORPHANED, ABORTED}
    ]_vars

\* the pool of build b, once the build exists
PoolOf(b) == IF b \in BuildIds THEN ProjectPool[builds[b].project] ELSE "none"

\* C20: every QUEUED build of the daemon's pool eventually leaves QUEUED, given
\* that the pool-wide daemon keeps running ticks.  (A build queued exactly
\* auto_abort_minutes before the last clock reading is left out: it would sit
\* on the threshold for as long as the clock stands there.)
C20_QueuedEventuallyLeaves ==
    \A b \in 1..MaxBuilds :
        (/\ StatusOf(b) = QUEUED
         /\ PoolOf(b) = "P1"
         /\ QueuedTimeOf(b) # MaxMinutes - pool.auto_abort_minutes)
           ~> (StatusOf(b) # QUEUED)

====
